---- MODULE Spec2Model ----
(***************************************************************************)
(* Model of the CCSDS packet decoder (package ccsds): Decoder.ReadPacket   *)
(* and Decoder.ReadAllPackets reading from an io.Reader.                   *)
(*                                                                         *)
(* The byte source is a finite byte sequence with a read cursor; it may    *)
(* hand out fewer bytes than requested per Read call and may report a      *)
(* fault at a fixed position.  io.ReadFull is the loop of Read calls that  *)
(* the Go library runs; one action is one Read call together with the      *)
(* code that runs up to the next Read call.                                *)
(***************************************************************************)
EXTENDS Integers, Sequences, FiniteSets, TLC

VARIABLES
    source,   \* what the source holds: the bytes of head, then pad zero bytes
    failAt,   \* cursor position at which the source reports a fault; Len(stream)+1 = never
    srcKind,  \* "whole": Read fills the request; "chunked": Read may return less
    pos,      \* the source's read cursor: bytes consumed so far
    op,       \* API call in progress: "none", "ReadPacket", "ReadAllPackets"
    pc,       \* position inside ReadPacket: "idle", "header", "data"
    buf,      \* bytes io.ReadFull has collected so far for the current request
    pkt,      \* the packet under construction (after the header is parsed)
    packets,  \* ReadAllPackets' accumulator
    allRet,   \* what the last ReadAllPackets call returned
    log,      \* every return of ReadPacket so far, in call order
    start,    \* cursor position at which the ReadPacket call in progress began
    span      \* log indices <<first, last>> of the calls made by the last ReadAllPackets

vars == <<source, failAt, srcKind, pos, op, pc, buf, pkt, packets, allRet, log, start, span>>

\* the byte sequence the source holds (bytes.Reader content)
stream ==
    IF source.pad = 0 THEN source.head
    ELSE source.head \o [i \in 1..source.pad |-> 0]

\* ---------------------------------------------------------------- bounds
MaxPackets == 2   \* complete packets laid before the tail of a stream
MaxChunk == 6     \* most bytes a chunked source hands out per Read
MaxCalls == 3     \* API calls the caller makes on one decoder

\* ------------------------------------------------------- program constants
HeaderLen == 6

\* ------------------------------------------------------------ arithmetic
Min(a, b) == IF a < b THEN a ELSE b

RECURSIVE BitAnd(_, _)
BitAnd(x, y) ==
    IF x = 0 \/ y = 0 THEN 0
    ELSE (x % 2) * (y % 2) + 2 * BitAnd(x \div 2, y \div 2)

RECURSIVE BitOr(_, _)
BitOr(x, y) ==
    IF x = 0 THEN y
    ELSE IF y = 0 THEN x
    ELSE (IF x % 2 = 1 \/ y % 2 = 1 THEN 1 ELSE 0) + 2 * BitOr(x \div 2, y \div 2)

Shr(x, k) == x \div (2 ^ k)

\* uint16(x) << k
Shl16(x, k) == (x * (2 ^ k)) % 65536

\* binary.BigEndian.Uint16(b) = uint16(b[1]) | uint16(b[0])<<8
BigEndianUint16(b) == BitOr(b[2], Shl16(b[1], 8))

\* uint16 addition
AddUint16(a, b) == (a + b) % 65536

\* ------------------------------------------------------------- packets
NilPkt == [nil |-> TRUE]
NoRet == [none |-> TRUE]

\* faulty variant: the APID mask is one bit too wide (0x0F for 0x07)
ParseHeaderWideMask(header) ==
    [ Version       |-> Shr(BitAnd(header[1], 224), 5),
      Type          |-> Shr(BitAnd(header[1], 16), 4),
      SecondaryHdr  |-> BitAnd(header[1], 8) # 0,
      APID          |-> BitOr(Shl16(BitAnd(header[1], 15), 8), header[2]),
      SequenceFlags |-> Shr(BitAnd(header[3], 192), 6),
      SequenceCount |-> BigEndianUint16(<<BitAnd(header[3], 63), header[4]>>),
      DataLen       |-> AddUint16(BigEndianUint16(<<header[5], header[6]>>), 1),
      Data          |-> <<>> ]

\* ReadPacket lines 47-64: the header fields of a 6-byte header
ParseHeader(header) ==
    [ Version       |-> Shr(BitAnd(header[1], 224), 5),
      Type          |-> Shr(BitAnd(header[1], 16), 4),
      SecondaryHdr  |-> BitAnd(header[1], 8) # 0,
      APID          |-> BitOr(Shl16(BitAnd(header[1], 7), 8), header[2]),
      SequenceFlags |-> Shr(BitAnd(header[3], 192), 6),
      SequenceCount |-> BigEndianUint16(<<BitAnd(header[3], 63), header[4]>>),
      DataLen       |-> AddUint16(BigEndianUint16(<<header[5], header[6]>>), 1),
      Data          |-> <<>> ]

\* ------------------------------------------------------------ the source
\* one d.r.Read(p) with len(p) = want at the cursor: the (n, err) it may return
SrcRead(want) ==
    IF pos = failAt THEN {[n |-> 0, err |-> "SourceError"]}
    ELSE IF pos = Len(stream) THEN {[n |-> 0, err |-> "EOF"]}
    ELSE LET avail == Min(want, Min(failAt, Len(stream)) - pos) IN
         IF srcKind = "whole"
         THEN {[n |-> avail, err |-> "nil"]}
         ELSE {[n |-> k, err |-> "nil"] : k \in 1..Min(avail, MaxChunk)}

\* io.ReadAtLeast: the loop runs while n < min && err == nil
ReadFullMore(n, min, err) == n < min /\ err = "nil"

\* faulty variant: a short read is reported with the source's own error, so a header cut
\* off by exhaustion reads as end-of-stream
ReadFullErrPlain(n, min, err) == IF n >= min THEN "nil" ELSE err

\* io.ReadAtLeast: the error returned once the loop has ended
ReadFullErr(n, min, err) ==
    IF n >= min THEN "nil"
    ELSE IF n > 0 /\ err = "EOF" THEN "ErrUnexpectedEOF"
    ELSE err

\* faulty variant: a cut-off stream counts as end-of-stream too
IsEOFOrUnexpected(err) == err \in {"EOF", "ErrUnexpectedEOF"}

\* errors.Is(err, io.EOF)
IsEOF(err) == err = "EOF"

\* ------------------------------------------------------------- streams
Fixture == <<8, 1, 63, 255, 0, 2, 222, 173, 190>>
MinPacket == <<247, 255, 192, 0, 0, 0, 127>>
WrapHeader == <<255, 255, 255, 255, 255, 255>>
PacketSet == {Fixture, MinPacket}

RECURSIVE Concat(_)
Concat(ss) == IF ss = <<>> THEN <<>> ELSE Head(ss) \o Concat(Tail(ss))

PacketSeqs == UNION {[1..n -> PacketSet] : n \in 0..MaxPackets}
\* what a stream ends with after its complete packets: a cut-off packet, or a
\* header announcing the largest payload, whole or cut off
Tails ==
    UNION {{SubSeq(q, 1, k) : k \in 0..(Len(q) - 1)} : q \in PacketSet}
    \cup {SubSeq(WrapHeader, 1, k) : k \in 0..Len(WrapHeader)}

SmallStreams == {Concat(ps) \o t : ps \in PacketSeqs, t \in Tails}

\* headers in which one byte takes every value and the others take edge values
EdgeBytes == {0, 1, 127, 128, 255}
SweepHeaders ==
    {<<a, b, 63, 255>> : a \in 0..255, b \in EdgeBytes}
    \cup {<<a, b, 63, 255>> : a \in EdgeBytes, b \in 0..255}
    \cup {<<8, 1, a, b>> : a \in 0..255, b \in EdgeBytes}
    \cup {<<8, 1, a, b>> : a \in EdgeBytes, b \in 0..255}
SweepStreams == {h \o <<0, 0, 90>> : h \in SweepHeaders}

\* one complete packet of the largest size: wire length 65535 and 65536 payload
\* bytes, which are 00 00 00 00 FF FE and then zeros
BigHeader == <<0, 0, 0, 0, 255, 255>>
BigPayloadStart == <<0, 0, 0, 0, 255, 254>>
BigHead == BigHeader \o BigPayloadStart
BigPad == 65536 - Len(BigPayloadStart)

\* ----------------------------------------------------------------- Init
Init ==
    /\ \/ /\ source \in {[head |-> s, pad |-> 0] : s \in SmallStreams}
          /\ failAt \in 0..(Len(stream) + 1)
          /\ srcKind = "chunked"
       \/ /\ source \in {[head |-> s, pad |-> 0] : s \in SweepStreams}
                      \cup {[head |-> BigHead, pad |-> BigPad]}
          /\ failAt = Len(stream) + 1
          /\ srcKind = "whole"
    /\ pos = 0
    /\ op = "none"
    /\ pc = "idle"
    /\ buf = <<>>
    /\ pkt = NilPkt
    /\ packets = <<>>
    /\ allRet = NoRet
    /\ log = <<>>
    /\ start = 0
    /\ span = <<0, 0>>

\* --------------------------------------------------------------- actions
\* ReadPacket returns (p, e) with the cursor at np; when ReadAllPackets made the
\* call, the body of its loop runs (lines 86-92)
Return(p, e, np) ==
    /\ pos' = np
    /\ log' = Append(log, [pkt |-> p, err |-> e, from |-> start, to |-> np])
    /\ buf' = <<>>
    /\ pkt' = NilPkt
    /\ pc' = "idle"
    /\ UNCHANGED <<source, failAt, srcKind, start>>
    /\ IF op = "ReadPacket"
       THEN /\ op' = "none"
            /\ UNCHANGED <<packets, allRet, span>>
       ELSE IF e # "nil"
       THEN /\ op' = "none"
            /\ allRet' = [packets |-> packets, err |-> IF IsEOF(e) THEN "nil" ELSE e]
            /\ span' = <<span[1], Len(log) + 1>>
            /\ UNCHANGED packets
       ELSE /\ packets' = Append(packets, p)
            /\ UNCHANGED <<op, allRet, span>>

\* the caller calls d.ReadPacket()
CallReadPacket ==
    /\ op = "none"
    /\ Len(log) < MaxCalls
    /\ op' = "ReadPacket"
    /\ pc' = "header"
    /\ buf' = <<>>
    /\ start' = pos
    /\ UNCHANGED <<source, failAt, srcKind, pos, pkt, packets, allRet, log, span>>

\* the caller calls d.ReadAllPackets(): var packets []*Packet
CallReadAllPackets ==
    /\ op = "none"
    /\ Len(log) < MaxCalls
    /\ op' = "ReadAllPackets"
    /\ packets' = <<>>
    /\ allRet' = NoRet
    /\ span' = <<Len(log) + 1, 0>>
    /\ UNCHANGED <<source, failAt, srcKind, pos, pc, buf, pkt, log, start>>

\* ReadAllPackets' loop calls d.ReadPacket() (line 85)
LoopReadPacket ==
    /\ op = "ReadAllPackets"
    /\ pc = "idle"
    /\ pc' = "header"
    /\ buf' = <<>>
    /\ start' = pos
    /\ UNCHANGED <<source, failAt, srcKind, pos, op, pkt, packets, allRet, log, span>>

\* one Read of io.ReadFull(d.r, header), then lines 40-74 once ReadFull returns
ReadHeader ==
    /\ pc = "header"
    /\ \E r \in SrcRead(HeaderLen - Len(buf)) :
         LET nb == buf \o SubSeq(stream, pos + 1, pos + r.n)
             np == pos + r.n
             e  == ReadFullErr(Len(nb), HeaderLen, r.err)
             p  == ParseHeader(nb)
         IN  IF ReadFullMore(Len(nb), HeaderLen, r.err)
             THEN /\ buf' = nb
                  /\ pos' = np
                  /\ UNCHANGED <<source, failAt, srcKind, op, pc, pkt, packets,
                                 allRet, log, start, span>>
             ELSE IF e # "nil"
             THEN Return(NilPkt, e, np)
             ELSE IF p.DataLen > 0
             THEN /\ pkt' = p
                  /\ pc' = "data"
                  /\ buf' = <<>>
                  /\ pos' = np
                  /\ UNCHANGED <<source, failAt, srcKind, op, packets, allRet,
                                 log, start, span>>
             ELSE Return([p EXCEPT !.Data = <<>>], "nil", np)

\* faulty variant: the payload is read with a single d.r.Read(pkt.Data) instead of
\* io.ReadFull, so a short read leaves the rest of Data zero
ReadDataSingleRead ==
    /\ pc = "data"
    /\ \E r \in SrcRead(pkt.DataLen) :
         LET nb == SubSeq(stream, pos + 1, pos + r.n)
                   \o [i \in 1..(pkt.DataLen - r.n) |-> 0]
         IN  IF r.err # "nil"
             THEN Return(NilPkt, r.err, pos)
             ELSE Return([pkt EXCEPT !.Data = nb], "nil", pos + r.n)

\* one Read of io.ReadFull(d.r, pkt.Data), then lines 69-76 once ReadFull returns
ReadData ==
    /\ pc = "data"
    /\ \E r \in SrcRead(pkt.DataLen - Len(buf)) :
         LET nb == buf \o SubSeq(stream, pos + 1, pos + r.n)
             np == pos + r.n
             e  == ReadFullErr(Len(nb), pkt.DataLen, r.err)
         IN  IF ReadFullMore(Len(nb), pkt.DataLen, r.err)
             THEN /\ buf' = nb
                  /\ pos' = np
                  /\ UNCHANGED <<source, failAt, srcKind, op, pc, pkt, packets,
                                 allRet, log, start, span>>
             ELSE IF e # "nil"
             THEN Return(NilPkt, e, np)
             ELSE Return([pkt EXCEPT !.Data = nb], "nil", np)

Next ==
    \/ CallReadPacket
    \/ CallReadAllPackets
    \/ LoopReadPacket
    \/ ReadHeader
    \/ ReadData

Spec == Init /\ [][Next]_vars

\* ------------------------------------------------- reference definitions
\* the source has no fault: it ends by exhaustion
NoFault == failAt > Len(stream)

\* the 16-bit wire length value of the header that starts at offset p of s
Wire(s, p) == s[p + 5] * 256 + s[p + 6]

\* bytes of s from offset p on
Remaining(s, p) == Len(s) - p

\* s from offset p on is complete packets laid back to back and nothing else
RECURSIVE WellFormedFrom(_, _)
WellFormedFrom(s, p) ==
    \/ p = Len(s)
    \/ /\ Remaining(s, p) >= 6
       /\ Remaining(s, p) >= 6 + Wire(s, p) + 1
       /\ WellFormedFrom(s, p + 6 + Wire(s, p) + 1)

\* the header fields of the packet that starts at offset p of s, as the format
\* lays them out
HeaderAt(s, p) ==
    [ Version       |-> (s[p + 1] \div 32) % 8,
      Type          |-> (s[p + 1] \div 16) % 2,
      SecondaryHdr  |-> (s[p + 1] \div 8) % 2 # 0,
      APID          |-> (s[p + 1] % 8) * 256 + s[p + 2],
      SequenceFlags |-> (s[p + 3] \div 64) % 4,
      SequenceCount |-> (s[p + 3] % 64) * 256 + s[p + 4] ]

\* the complete packet that starts at offset p of s
DecodeAt(s, p) ==
    [ Version       |-> HeaderAt(s, p).Version,
      Type          |-> HeaderAt(s, p).Type,
      SecondaryHdr  |-> HeaderAt(s, p).SecondaryHdr,
      APID          |-> HeaderAt(s, p).APID,
      SequenceFlags |-> HeaderAt(s, p).SequenceFlags,
      SequenceCount |-> HeaderAt(s, p).SequenceCount,
      DataLen       |-> Wire(s, p) + 1,
      Data          |-> SubSeq(s, p + 7, p + 6 + Wire(s, p) + 1) ]

\* the packets of a well-formed s from offset p on, in stream order
RECURSIVE Expected(_, _)
Expected(s, p) ==
    IF p = Len(s) THEN <<>>
    ELSE <<DecodeAt(s, p)>> \o Expected(s, p + 6 + Wire(s, p) + 1)

\* what ReadPacket gives at offset p of a source that hands out every requested
\* byte in one Read: the packet, the error and the cursor afterwards
AtOnce(s, f, p) ==
    LET lim == Min(f, Len(s))
        short(a) == IF lim = f THEN "SourceError"
                    ELSE IF a > 0 THEN "ErrUnexpectedEOF" ELSE "EOF"
        h == ParseHeader(SubSeq(s, p + 1, p + 6))
    IN  IF lim - p < 6
        THEN [pkt |-> NilPkt, err |-> short(lim - p), to |-> lim]
        ELSE IF h.DataLen = 0
        THEN [pkt |-> h, err |-> "nil", to |-> p + 6]
        ELSE IF lim - p - 6 >= h.DataLen
        THEN [pkt |-> [h EXCEPT !.Data = SubSeq(s, p + 7, p + 6 + h.DataLen)],
              err |-> "nil", to |-> p + 6 + h.DataLen]
        ELSE [pkt |-> NilPkt, err |-> short(lim - p - 6), to |-> lim]

\* the dataLength ReadPacket computes from the header at offset p of s
ComputedDataLen(s, p) == ParseHeader(SubSeq(s, p + 1, p + 6)).DataLen

\* the log entries of the ReadPacket calls that returned a packet
Returned == {i \in 1..Len(log) : log[i].err = "nil"}

\* the zero-valued Packet{}
ZeroPacket ==
    [ Version |-> 0, Type |-> 0, SecondaryHdr |-> FALSE, APID |-> 0,
      SequenceFlags |-> 0, SequenceCount |-> 0, DataLen |-> 0, Data |-> <<>> ]

\* ----------------------------------------------------------------- claims

\* C1: a complete header followed by fewer payload bytes than the dataLength
\* computed from it (none at all included) makes ReadPacket return a truncation error,
\* never the clean end-of-stream outcome, and ReadAllPackets then returns a
\* non-nil error.
C1_TruncatedPayloadIsError ==
    NoFault =>
        \A i \in 1..Len(log) :
            LET rem == Remaining(stream, log[i].from) IN
            (rem >= 6 /\ rem - 6 < ComputedDataLen(stream, log[i].from)) =>
                /\ log[i].err = "ErrUnexpectedEOF"
                /\ log[i].pkt = NilPkt
                /\ (allRet # NoRet /\ span[2] = i) => allRet.err # "nil"

\* C2: every returned packet has DataLen = wire length value + 1, in 1..65536;
\* wire value 65535 gives 65536 and does not wrap to 0.
C2_DataLenIsWirePlusOne ==
    \A i \in Returned :
        /\ log[i].pkt.DataLen = Wire(stream, log[i].from) + 1
        /\ log[i].pkt.DataLen \in 1..65536

\* C3: with the source exhausted, ReadPacket returns end-of-stream and no packet
\* when 0 bytes remain, and a truncated-header error other than end-of-stream and
\* no packet when 1 to 5 bytes remain; never a zero-valued packet.
C3_HeaderStageOutcome ==
    NoFault =>
        \A i \in 1..Len(log) :
            LET rem == Remaining(stream, log[i].from) IN
            /\ rem = 0 => (log[i].err = "EOF" /\ log[i].pkt = NilPkt)
            /\ rem \in 1..5 =>
                 /\ log[i].err = "ErrUnexpectedEOF"
                 /\ ~IsEOF(log[i].err)
                 /\ log[i].pkt = NilPkt
            /\ rem < 6 => log[i].pkt # ZeroPacket

C3_Witness ==
    /\ NoFault
    /\ \E i \in 1..Len(log) :
          Remaining(stream, log[i].from) \in 1..5 /\ log[i].err = "ErrUnexpectedEOF"
    /\ \E i \in 1..Len(log) :
          Remaining(stream, log[i].from) = 0 /\ log[i].err = "EOF"

\* C4: the header fields of every returned packet are the bit fields of its
\* header bytes (version, type, secondary-header flag, apid, sequence flags,
\* sequence count), each within its width; the bytes 08 01 3F FF 00 02 DE AD BE
\* decode to version 0, type 0, secondary header present, apid 1, flags 0,
\* count 0x3FFF, dataLength 3, data DE AD BE.
C4_HeaderFields ==
    \A i \in Returned :
        LET p == log[i].pkt
            d == HeaderAt(stream, log[i].from)
        IN  /\ p.Version = d.Version /\ p.Version \in 0..7
            /\ p.Type = d.Type /\ p.Type \in 0..1
            /\ p.SecondaryHdr = d.SecondaryHdr
            /\ p.APID = d.APID /\ p.APID \in 0..2047
            /\ p.SequenceFlags = d.SequenceFlags /\ p.SequenceFlags \in 0..3
            /\ p.SequenceCount = d.SequenceCount /\ p.SequenceCount \in 0..16383
            /\ SubSeq(stream, log[i].from + 1, log[i].to) = Fixture =>
                 p = [ Version |-> 0, Type |-> 0, SecondaryHdr |-> TRUE, APID |-> 1,
                       SequenceFlags |-> 0, SequenceCount |-> 16383, DataLen |-> 3,
                       Data |-> <<222, 173, 190>> ]

C4_Witness ==
    /\ \E i \in Returned : SubSeq(stream, log[i].from + 1, log[i].to) = Fixture
    /\ \E i \in Returned : log[i].pkt.APID = 2047 /\ log[i].pkt.Version = 7
    /\ \E i \in Returned : log[i].pkt.SequenceCount = 0 /\ log[i].pkt.SequenceFlags = 3

\* C5: every returned packet's data is exactly dataLength (wire value + 1) bytes,
\* the bytes that follow its header, and is never empty; wire value 0 reads
\* exactly 1 byte.
C5_DataIsPayload ==
    \A i \in Returned :
        LET p == log[i].pkt
            w == Wire(stream, log[i].from)
        IN  /\ Len(p.Data) = p.DataLen
            /\ p.Data = SubSeq(stream, log[i].from + 7, log[i].from + 6 + p.DataLen)
            /\ p.Data # <<>>
            /\ w = 0 => Len(p.Data) = 1

\* C6: when the ReadPacket call that ends ReadAllPackets returned anything but
\* end-of-stream, ReadAllPackets returns that error together with exactly the
\* packets its earlier calls returned, in order; the failing call is its first
\* failing call.
C6_ErrorKeepsPackets ==
    (allRet # NoRet /\ log[span[2]].err # "EOF") =>
        /\ allRet.err = log[span[2]].err
        /\ allRet.err # "nil"
        /\ \A i \in span[1]..(span[2] - 1) : log[i].err = "nil"
        /\ allRet.packets = [i \in 1..(span[2] - span[1]) |-> log[span[1] + i - 1].pkt]
        /\ \A i \in span[1]..(span[2] - 1) : log[i].to = log[i + 1].from

C6_Witness ==
    /\ allRet # NoRet
    /\ allRet.err \in {"ErrUnexpectedEOF", "SourceError"}
    /\ Len(allRet.packets) = 2

\* C7: on a stream of N complete packets and nothing else, ReadAllPackets
\* returns exactly the N packets of the stream, in order, and no error.
C7_AllPacketsOfWellFormedStream ==
    (allRet # NoRet /\ NoFault /\ WellFormedFrom(stream, log[span[1]].from)) =>
        /\ allRet.err = "nil"
        /\ allRet.packets = Expected(stream, log[span[1]].from)

\* C8: every successful ReadPacket advances the cursor by exactly
\* 6 + (wire value + 1) bytes, and the next call starts where it stopped.
C8_AdvanceBySixPlusDataLength ==
    \A i \in Returned :
        /\ log[i].to - log[i].from = 6 + Wire(stream, log[i].from) + 1
        /\ i < Len(log) => log[i + 1].from = log[i].to

\* C9: repeated ReadPacket calls on a stream of N complete packets return the
\* N packets in stream order, then end-of-stream; after an end-of-stream every
\* later call returns end-of-stream and no packet.
C9_PacketsThenEndOfStream ==
    /\ (NoFault /\ WellFormedFrom(stream, 0)) =>
          LET exp == Expected(stream, 0) IN
          \A i \in 1..Len(log) :
              IF i <= Len(exp)
              THEN log[i].err = "nil" /\ log[i].pkt = exp[i]
              ELSE log[i].err = "EOF" /\ log[i].pkt = NilPkt
    /\ \A i \in 1..Len(log) : \A j \in i..Len(log) :
          log[i].err = "EOF" => (log[j].err = "EOF" /\ log[j].pkt = NilPkt)

\* C10: the packet or error ReadPacket returns and the bytes it consumes are
\* those of a source that hands out every requested byte in one Read, however
\* the source splits the bytes across Read calls.
C10_ChunkingDoesNotMatter ==
    \A i \in 1..Len(log) :
        [pkt |-> log[i].pkt, err |-> log[i].err, to |-> log[i].to]
            = AtOnce(stream, failAt, log[i].from)

C10_Witness ==
    /\ srcKind = "chunked"
    /\ \E i \in Returned : log[i].pkt.DataLen = 3
    /\ pc = "data"
    /\ Len(buf) \in 1..(pkt.DataLen - 1)

====
